---- MODULE Spec2Model ----
(***************************************************************************)
(* State-machine model of parse_plants.py: the section locator, the entry  *)
(* segmenter, the field harvester (lookahead), and the clean-up, merge and *)
(* sort of main.  Text is modelled character by character on strings; the  *)
(* obelisk U+2020 is written "+" (module text is ASCII) and no document of *)
(* the model uses "+" for anything else.  Indices i, j, k, start_idx and   *)
(* end_idx keep their 0-based Python values; lines[i] of the code is       *)
(* lines[i + 1] here.                                                      *)
(***************************************************************************)
EXTENDS Integers, Sequences, FiniteSets, TLC

VARIABLES content, pc, start_idx, end_idx, lines, i, j, k, plants, seen,
          plant_info, form_text, anchors, used, merge_in,
          frame, attempts, responses, result, slept

\* The state of one call of download_images.get_wikipedia_image: where the
\* innermost frame is, the calls of the function made so far, the answers
\* the server gave to its requests, what the call returned, the seconds of
\* time.sleep
fetch == <<frame, attempts, responses, result, slept>>

vars == <<content, pc, start_idx, end_idx, lines, i, j, k, plants, seen,
          plant_info, form_text, anchors, used, merge_in, fetch>>

\* No lookup is under way: the parser does not call the downloader
NoLookup ==
    /\ frame = "idle"
    /\ attempts = 0
    /\ responses = <<>>
    /\ result = "pending"
    /\ slept = 0

(***************************************************************************)
(* Characters and the str methods the parser uses.  The recursive ones are *)
(* functions on STRING, applied through an operator of the method's name.  *)
(***************************************************************************)
\* The n-th character (1-based), "" outside the string
Ch(s, n) == IF n \in 1..Len(s) THEN SubSeq(s, n, n) ELSE ""

UpperAZ == "ABCDEFGHIJKLMNOPQRSTUVWXYZ"
LowerAZ == "abcdefghijklmnopqrstuvwxyz"
Digits == "0123456789"

UpperSet == {Ch(UpperAZ, n) : n \in 1..Len(UpperAZ)}
LowerSet == {Ch(LowerAZ, n) : n \in 1..Len(LowerAZ)}
DigitSet == {Ch(Digits, n) : n \in 1..Len(Digits)}
SpaceSet == {" ", "\t", "\n", "\r", "\f"}

Obelisk == "+"

\* The printable ASCII characters in code-point order: 32 (space) to 95, and
\* 97 to 126 (the backquote, 96, cannot be written in a string of the module
\* and is in no document of the model).
AsciiLow == " !\"#$%&'()*+,-./0123456789:;<=>?@ABCDEFGHIJKLMNOPQRSTUVWXYZ[\\]^_"
AsciiHigh == "abcdefghijklmnopqrstuvwxyz{|}~"

\* ord(c): the code point, the order of Python's string comparison.
Ord(c) == IF c = "\t" THEN 9
          ELSE IF c = "\n" THEN 10
          ELSE IF c = "\f" THEN 12
          ELSE IF c = "\r" THEN 13
          ELSE IF c = Obelisk THEN 8224
          ELSE IF \E n \in 1..Len(AsciiLow) : Ch(AsciiLow, n) = c
               THEN 31 + (CHOOSE n \in 1..Len(AsciiLow) : Ch(AsciiLow, n) = c)
               ELSE 96 + (CHOOSE n \in 1..Len(AsciiHigh) : Ch(AsciiHigh, n) = c)

Min(a, b) == IF a < b THEN a ELSE b

\* str.lower() on one character
LowerCh(c) == IF c \in UpperSet
              THEN Ch(LowerAZ, CHOOSE n \in 1..26 : Ch(UpperAZ, n) = c)
              ELSE c

\* str.lower(), character by character (by halves, which keeps the depth
\* of the evaluation logarithmic)
LowerOf[s \in STRING] ==
    IF Len(s) <= 1 THEN LowerCh(s)
    ELSE LowerOf[SubSeq(s, 1, Len(s) \div 2)] \o LowerOf[SubSeq(s, Len(s) \div 2 + 1, Len(s))]

Lower(s) == LowerOf[s]

StartsWith(s, p) == Len(p) <= Len(s) /\ SubSeq(s, 1, Len(p)) = p

\* The least element of a non-empty set of integers
Least(ns) == CHOOSE n \in ns : \A m \in ns : n <= m

\* str.find(sub, from): the 0-based offset of the first occurrence at or
\* after `from`, or -1
FindOf[s \in STRING, sub \in STRING, from \in Int] ==
    LET hits == {p \in from..(Len(s) - Len(sub)) : SubSeq(s, p + 1, p + Len(sub)) = sub}
    IN  IF hits = {} THEN -1 ELSE Least(hits)

Find(s, sub, from) == FindOf[s, sub, from]

Contains(s, sub) == Find(s, sub, 0) # -1

\* s[a:b] for 0 <= a, b <= len(s)
Slice(s, a, b) == IF a >= b THEN "" ELSE SubSeq(s, a + 1, b)

\* str.split(sep) for a non-empty separator: the pieces, left to right
SplitOf[s \in STRING, sep \in STRING] ==
    LET p == Find(s, sep, 0)
    IN  IF p = -1 THEN <<s>>
        ELSE <<Slice(s, 0, p)>> \o SplitOf[Slice(s, p + Len(sep), Len(s)), sep]

Split(s, sep) == SplitOf[s, sep]

Last(q) == q[Len(q)]

\* str.replace(old, '')
RemoveOf[s \in STRING, old \in STRING] ==
    LET p == Find(s, old, 0)
    IN  IF p = -1 THEN s
        ELSE Slice(s, 0, p) \o RemoveOf[Slice(s, p + Len(old), Len(s)), old]

Remove(s, old) == RemoveOf[s, old]

\* str.lstrip(chars) and str.rstrip(chars)
LStripOf[s \in STRING, cs \in SUBSET STRING] ==
    IF s # "" /\ Head(s) \in cs THEN LStripOf[Tail(s), cs] ELSE s

RStripOf[s \in STRING, cs \in SUBSET STRING] ==
    IF s # "" /\ Ch(s, Len(s)) \in cs THEN RStripOf[SubSeq(s, 1, Len(s) - 1), cs]
    ELSE s

LStripSet(s, cs) == LStripOf[s, cs]
RStripSet(s, cs) == RStripOf[s, cs]

\* str.strip() and str.strip(chars)
Strip(s) == RStripSet(LStripSet(s, SpaceSet), SpaceSet)
StripChars(s, cs) == RStripSet(LStripSet(s, cs), cs)

\* The length of the longest prefix of s made of characters of cs, from
\* 0-based offset p on: the greedy match of a character class
RunOf[s \in STRING, p \in Int, cs \in SUBSET STRING] ==
    IF p < Len(s) /\ Ch(s, p + 1) \in cs THEN 1 + RunOf[s, p + 1, cs] ELSE 0

Run(s, p, cs) == RunOf[s, p, cs]

\* The same for the characters outside cs
RunNotOf[s \in STRING, p \in Int, cs \in SUBSET STRING] ==
    IF p < Len(s) /\ Ch(s, p + 1) \notin cs THEN 1 + RunNotOf[s, p + 1, cs] ELSE 0

RunNot(s, p, cs) == RunNotOf[s, p, cs]

\* str.split(): the maximal runs of non-whitespace characters
WordsOf[s \in STRING] ==
    LET t == LStripSet(s, SpaceSet)
        n == RunNot(t, 0, SpaceSet)
    IN  IF t = "" THEN <<>>
        ELSE <<Slice(t, 0, n)>> \o WordsOf[Slice(t, n, Len(t))]

Words(s) == WordsOf[s]

\* sep.join(q)
JoinOf[q \in Seq(STRING), sep \in STRING] ==
    IF q = <<>> THEN ""
    ELSE IF Len(q) = 1 THEN q[1]
    ELSE q[1] \o sep \o JoinOf[Tail(q), sep]

Join(q, sep) == JoinOf[q, sep]

\* ' '.join(s.split())
NormalizeWs(s) == Join(Words(s), " ")

(***************************************************************************)
(* The regular expressions of parse_plants.  Each is matched the way the   *)
(* backtracking matcher does: a greedy class takes its longest run, and a  *)
(* shorter run is tried only where the rest of the pattern could use it.   *)
(***************************************************************************)

\* \s*+?\s+([A-Z].*)$ from 0-based offset p: the offset where group 3 starts,
\* or -1.  With the obelisk at the end of the first whitespace run, at least
\* one whitespace must follow it; without it, the run itself is \s*\s+.
CommonStart[s \in STRING, p \in Int] ==
    LET a == Run(s, p, SpaceSet)
        q == p + a + 1
        b == Run(s, q, SpaceSet)
    IN  IF Ch(s, p + a + 1) = Obelisk
        THEN IF b >= 1 /\ Ch(s, q + b + 1) \in UpperSet THEN q + b ELSE -1
        ELSE IF a >= 1 /\ Ch(s, p + a + 1) \in UpperSet THEN p + a ELSE -1

\* (?:\s+(?:var\.|ssp\.)\s+[a-z]+) from offset p: the offset after it, or -1
VariantEnd[s \in STRING, p \in Int] ==
    LET a == Run(s, p, SpaceSet)
        q == p + a + 4
        b == Run(s, q, SpaceSet)
        c == Run(s, q + b, LowerSet)
    IN  IF /\ a >= 1
           /\ Slice(s, p + a, Min(q, Len(s))) \in {"var.", "ssp."}
           /\ b >= 1
           /\ c >= 1
        THEN q + b + c ELSE -1

\* re.match(r'^([A-Z][a-z]+)\s+([a-z]+(?:\s+(?:var\.|ssp\.)\s+[a-z]+)?)\s*+?\s+([A-Z].*)$', line)
\* on a line without "\n": the three groups, or ok = FALSE
EntryMatchOf[line \in STRING] ==
    LET n1 == Run(line, 1, LowerSet)
        p1 == 1 + n1
        w1 == Run(line, p1, SpaceSet)
        p2 == p1 + w1
        n2 == Run(line, p2, LowerSet)
        p3 == p2 + n2
        pv == VariantEnd[line, p3]
        withVar == IF pv = -1 THEN -1 ELSE CommonStart[line, pv]
        without == CommonStart[line, p3]
        none == [ok |-> FALSE, genus |-> "", species |-> "", common |-> ""]
        groups(e2, s3) == [ok |-> TRUE,
                           genus |-> Slice(line, 0, p1),
                           species |-> Slice(line, p2, e2),
                           common |-> Slice(line, s3, Len(line))]
    IN  IF ~(line # "" /\ Head(line) \in UpperSet /\ n1 >= 1 /\ w1 >= 1 /\ n2 >= 1)
        THEN none
        ELSE IF withVar # -1 THEN groups(pv, withVar)
        ELSE IF without # -1 THEN groups(p3, without)
        ELSE none

EntryMatch(line) == EntryMatchOf[line]

\* re.match(r'^[A-Z][a-z]+\s+[a-z]+\s+[A-Z]', s)
NextEntryShape(s) ==
    LET n1 == Run(s, 1, LowerSet)
        w1 == Run(s, 1 + n1, SpaceSet)
        n2 == Run(s, 1 + n1 + w1, LowerSet)
        w2 == Run(s, 1 + n1 + w1 + n2, SpaceSet)
    IN  /\ s # "" /\ Head(s) \in UpperSet
        /\ n1 >= 1 /\ w1 >= 1 /\ n2 >= 1 /\ w2 >= 1
        /\ Ch(s, 1 + n1 + w1 + n2 + w2 + 1) \in UpperSet

StatusWords == {"prohibited", "regulated", "invasive"}

\* \s+(Prohibited|Regulated|Invasive) at offset p, ignoring case
StatusAt(s, p) ==
    LET a == Run(s, p, SpaceSet)
    IN  /\ a >= 1
        /\ \E w \in StatusWords :
              /\ p + a + Len(w) <= Len(s)
              /\ Lower(Slice(s, p + a, p + a + Len(w))) = w

\* re.sub(r'\s+(Prohibited|Regulated|Invasive).*$', '', common, flags=re.IGNORECASE):
\* the text before the leftmost match (the match runs to the end)
CutStatusOf[s \in STRING] ==
    LET hits == {p \in 0..(Len(s) - 1) : StatusAt(s, p)}
    IN  IF hits = {} THEN s ELSE Slice(s, 0, Least(hits))

CutStatus(s) == CutStatusOf[s]

\* \s*Coefficient\s+of\s+\d+ at offset p
CoefficientAt(s, p) ==
    LET a == Run(s, p, SpaceSet)
        q == p + a + 11
        b == Run(s, q, SpaceSet)
        r == q + b + 2
        c == Run(s, r, SpaceSet)
    IN  /\ q <= Len(s) /\ Slice(s, p + a, q) = "Coefficient"
        /\ b >= 1
        /\ r <= Len(s) /\ Slice(s, q + b, r) = "of"
        /\ c >= 1
        /\ Run(s, r + c, DigitSet) >= 1

\* re.sub(r'\s*Coefficient\s+of\s+\d+.*$', '', habitat_text): the text
\* before the leftmost match
CutCoefficientOf[s \in STRING] ==
    LET hits == {p \in 0..(Len(s) - 1) : CoefficientAt(s, p)}
    IN  IF hits = {} THEN s ELSE Slice(s, 0, Least(hits))

CutCoefficient(s) == CutCoefficientOf[s]

(***************************************************************************)
(* parse_plants: the section locator.                                      *)
(***************************************************************************)
PageMarker == "Page | 98"
FernsHeader == "Ferns\nFerns add texture"
GlossaryToken == "Glossary"

StartIdx(text) ==
    IF Find(text, PageMarker, 0) # -1 THEN Find(text, PageMarker, 0)
    ELSE IF Find(text, FernsHeader, 0) # -1 THEN Find(text, FernsHeader, 0)
    ELSE 0

\* The first 'Glossary' of the whole document, wherever the section starts
EndIdxFromZero(text, start) ==
    IF Find(text, GlossaryToken, 0) # -1 THEN Find(text, GlossaryToken, 0)
    ELSE Len(text)

EndIdx(text, start) ==
    IF Find(text, GlossaryToken, start) # -1 THEN Find(text, GlossaryToken, start)
    ELSE Len(text)

(***************************************************************************)
(* parse_plants: the entry segmenter.                                      *)
(***************************************************************************)
\* The reserved words without 'forbs'
SkipTermsWithoutForbs == {"ferns", "graminoids", "shrubs", "trees", "vines"}

SkipTerms == {"ferns", "forbs", "graminoids", "shrubs", "trees", "vines"}
HeaderNames == {"common name", "common names", "valued characteristics"}
MinCommonLen == 3

\* The line of the section at 0-based index n, stripped; "IndexError" stands
\* for the exception an index outside the list raises
LineAt(n) == IF n \in 0..(Len(lines) - 1) THEN Strip(lines[n + 1]) ELSE "IndexError"
InRange(n) == n \in 0..(Len(lines) - 1)

IsSkippedLine(line) == line = "" \/ StartsWith(line, "---") \/ StartsWith(line, "Page |")

Genus(m) == Strip(m.genus)
Species(m) == Strip(Remove(Strip(m.species), Obelisk))
Scientific(m) == Genus(m) \o " " \o Species(m)
Common(m) == NormalizeWs(CutStatus(Strip(Remove(Strip(m.common), Obelisk))))

\* genus[0].isupper() and species[0].islower()
Binomial(m) == Ch(Genus(m), 1) \in UpperSet /\ Ch(Species(m), 1) \in LowerSet

\* The four checks that discard a matched line
Rejected(m) ==
    \/ Len(Common(m)) < MinCommonLen
    \/ Lower(Genus(m)) \in SkipTerms
    \/ ~Binomial(m)
    \/ Lower(Common(m)) \in HeaderNames

NewPlant(m) == [scientific_name |-> Scientific(m),
                common_name |-> Common(m),
                habitat |-> "",
                form_color |-> "",
                ecosystem_services |-> "",
                horticultural_value |-> "",
                other_info |-> "",
                exposure |-> "",
                soil_moisture |-> ""]

(***************************************************************************)
(* parse_plants: the field harvester.                                      *)
(***************************************************************************)
LookaheadLines == 60
StopAfter == 3
ContinuationEnd == 4

\* The window without the bound of the list: i + 60
WindowEndUnclamped(n) == n + LookaheadLines

\* min(i + 60, len(lines)) and min(j + 4, len(lines))
WindowEnd(n) == Min(n + LookaheadLines, Len(lines))
ContEnd(n) == Min(n + ContinuationEnd, Len(lines))

\* The branch of the if/elif chain that a window line takes
Branch(line) ==
    IF StartsWith(line, "Habitat:") THEN "habitat"
    ELSE IF Contains(line, "Exposure:") THEN "exposure"
    ELSE IF Contains(line, "Form/Color:") THEN "form_color"
    ELSE IF Contains(line, "Ecosystem Services:") THEN "ecosystem_services"
    ELSE IF Contains(line, "Horticultural") /\ Contains(line, "Value:")
         THEN "horticultural_value"
    ELSE IF StartsWith(line, "Other:") THEN "other_info"
    ELSE "none"

HabitatText(line) == CutCoefficient(Strip(Remove(line, "Habitat:")))
ExposureText(line) == Strip(Split(Split(line, "Exposure:")[2], "Ecosystem")[1])
FormText(line) == Strip(Last(Split(line, "Form/Color:")))
ServicesText(line) == Strip(Last(Split(line, "Services:")))
ValueText(line) == Strip(Last(Split(line, "Value:")))
OtherText(line) == Strip(Remove(line, "Other:"))

\* plant_info after a window line that is not a Form/Color line
Harvested(info, line) ==
    LET branch == Branch(line)
    IN  CASE branch = "habitat" -> [info EXCEPT !.habitat = HabitatText(line)]
          [] branch = "exposure" -> [info EXCEPT !.exposure = ExposureText(line)]
          [] branch = "ecosystem_services" ->
                 [info EXCEPT !.ecosystem_services = ServicesText(line)]
          [] branch = "horticultural_value" ->
                 [info EXCEPT !.horticultural_value = ValueText(line)]
          [] branch = "other_info" -> [info EXCEPT !.other_info = OtherText(line)]
          [] OTHER -> info

ContSentinels == {"Other:", "---", "Habitat:", "Page |"}

\* A continuation line that is appended to form_text
Continues(cont) ==
    /\ cont # ""
    /\ ~\E x \in ContSentinels : StartsWith(cont, x)
    /\ ~NextEntryShape(cont)

\* if j > i + 3 and re.match(...): break
StopsLookahead(line) == j > i + StopAfter /\ NextEntryShape(line)

(***************************************************************************)
(* categorize_plant, clean_name and the steps of main.                     *)
(***************************************************************************)
fern_genera ==
    <<"Adiantum", "Asplenium", "Athyrium", "Dennstaedtia", "Deparia",
      "Dryopteris", "Matteuccia", "Onoclea", "Osmunda", "Osmundastrum",
      "Polypodium", "Polystichum", "Pteridium", "Thelypteris",
      "Woodwardia">>

graminoid_genera ==
    <<"Ammophila", "Andropogon", "Aristida", "Agrostis", "Avenella",
      "Bolboschoenus", "Calamagrostis", "Carex", "Cenchrus",
      "Chasmanthium", "Cinna", "Cyperus", "Danthonia", "Dichanthelium",
      "Distichlis", "Eleocharis", "Elymus", "Eragrostis", "Eriophorum",
      "Festuca", "Glyceria", "Juncus", "Koeleria", "Leersia",
      "Muhlenbergia", "Panicum", "Phalaris", "Piptochaetium", "Poa",
      "Rhynchospora", "Schizachyrium", "Schoenoplectus", "Scirpus",
      "Sorghastrum", "Spartina", "Sporobolus", "Tridens", "Tripsacum",
      "Typha", "Zizania">>

shrub_genera ==
    <<"Aronia", "Arctostaphylos", "Baccharis", "Calycanthus", "Ceanothus",
      "Cephalanthus", "Clethra", "Comptonia", "Cornus", "Crataegus",
      "Diervilla", "Epigaea", "Eubotrys", "Euonymus", "Gaultheria",
      "Gaylussacia", "Hamamelis", "Hudsonia", "Hydrangea", "Ilex", "Itea",
      "Kalmia", "Leucothoe", "Lindera", "Lyonia", "Morella", "Myrica",
      "Photinia", "Physocarpus", "Prunus", "Rhododendron", "Rhus", "Ribes",
      "Rosa", "Rubus", "Sambucus", "Spiraea", "Staphylea",
      "Symphoricarpos", "Vaccinium", "Viburnum", "Xanthorhiza">>

\* A tree list that shares a genus with the shrub list
tree_genera_shared == <<"Acer", "Rosa", "Quercus">>

tree_genera ==
    <<"Abies", "Acer", "Aesculus", "Amelanchier", "Asimina", "Betula",
      "Carpinus", "Carya", "Castanea", "Catalpa", "Celtis", "Cercis",
      "Chionanthus", "Cladrastis", "Diospyros", "Fagus", "Fraxinus",
      "Gleditsia", "Gymnocladus", "Halesia", "Juglans", "Juniperus",
      "Larix", "Liquidambar", "Liriodendron", "Magnolia", "Morus", "Nyssa",
      "Ostrya", "Oxydendrum", "Picea", "Pinus", "Platanus", "Populus",
      "Quercus", "Salix", "Sassafras", "Taxodium", "Thuja", "Tilia",
      "Tsuga", "Ulmus">>

vine_genera ==
    <<"Apios", "Bignonia", "Campsis", "Celastrus", "Clematis", "Lonicera",
      "Menispermum", "Parthenocissus", "Smilax", "Strophostyles", "Vitis",
      "Wisteria">>

Has(list, x) == \E n \in 1..Len(list) : list[n] = x

\* The if/elif chain of categorize_plant on the genus
CategoryOf[genus \in STRING] ==
    IF genus = "IndexError" THEN "IndexError"
    ELSE IF Has(fern_genera, genus) THEN "Fern"
    ELSE IF Has(graminoid_genera, genus) THEN "Graminoid"
    ELSE IF Has(shrub_genera, genus) THEN "Shrub"
    ELSE IF Has(tree_genera, genus) THEN "Tree"
    ELSE IF Has(vine_genera, genus) THEN "Vine"
    ELSE "Forb"

\* The chain on the whole name instead of its first word
categorize_whole_name(scientific_name) == CategoryOf[scientific_name]

\* The chain on the last word of the name instead of its first
categorize_last_token(scientific_name) ==
    CategoryOf[IF Words(scientific_name) = <<>> THEN "IndexError"
               ELSE Last(Words(scientific_name))]

\* genus = scientific_name.split()[0], then the chain; "IndexError" stands
\* for the exception of split()[0] on a blank name
categorize_plant(scientific_name) ==
    CategoryOf[IF Words(scientific_name) = <<>> THEN "IndexError"
               ELSE Words(scientific_name)[1]]

clean_name(name) == StripChars(NormalizeWs(name), {" ", ".", ",", ";", ":"})

\* One pass of the first loop of main over a record
Cleaned(plant) ==
    [scientific_name |-> clean_name(plant.scientific_name),
     common_name |-> clean_name(plant.common_name),
     habitat |-> plant.habitat,
     form_color |-> plant.form_color,
     ecosystem_services |-> plant.ecosystem_services,
     horticultural_value |-> plant.horticultural_value,
     other_info |-> plant.other_info,
     exposure |-> plant.exposure,
     soil_moisture |-> plant.soil_moisture,
     category |-> categorize_plant(clean_name(plant.scientific_name))]

\* The position of key among the names as stored, not lowercased
KeyIndexExact(uniq, key) ==
    IF \E n \in 1..Len(uniq) : uniq[n].scientific_name = key
    THEN CHOOSE n \in 1..Len(uniq) : uniq[n].scientific_name = key
    ELSE 0

\* The position in unique_plants (a dict, kept in insertion order) of key,
\* 0 when the key is absent
KeyIndex(uniq, key) ==
    IF \E n \in 1..Len(uniq) : Lower(uniq[n].scientific_name) = key
    THEN CHOOSE n \in 1..Len(uniq) : Lower(uniq[n].scientific_name) = key
    ELSE 0

\* A later record of the same habitat length replaces the earlier one
ReplacesOnTie(plant, existing) == Len(plant.habitat) >= Len(existing.habitat)

\* if len(plant.habitat) > len(existing.habitat): unique_plants[key] = plant
Replaces(plant, existing) == Len(plant.habitat) > Len(existing.habitat)

\* The "Remove duplicates" loop from record n on; list(unique_plants.values())
RECURSIVE Unique(_, _, _)
Unique(list, n, uniq) ==
    IF n > Len(list) THEN uniq
    ELSE LET plant == list[n]
             at == KeyIndex(uniq, Lower(plant.scientific_name))
         IN  Unique(list, n + 1,
                    IF at = 0 THEN Append(uniq, plant)
                    ELSE IF Replaces(plant, uniq[at]) THEN [uniq EXCEPT ![at] = plant]
                    ELSE uniq)

\* a < b for Python strings: by code point, a proper prefix first
StrLessOf[a \in STRING, b \in STRING] ==
    IF b = "" THEN FALSE
    ELSE IF a = "" THEN TRUE
    ELSE IF Head(a) = Head(b) THEN StrLessOf[Tail(a), Tail(b)]
    ELSE Ord(Head(a)) < Ord(Head(b))

StrLess(a, b) == StrLessOf[a, b]

\* The descending order
SortKeyGreater(x, y) == StrLess(y.scientific_name, x.scientific_name)

\* x['scientific_name'] < y['scientific_name']
SortKeyLess(x, y) == StrLess(x.scientific_name, y.scientific_name)

\* list.sort(key=...) is stable: x goes after every element not greater
RECURSIVE Insert(_, _)
Insert(sorted, x) ==
    IF sorted = <<>> THEN <<x>>
    ELSE IF SortKeyLess(x, Head(sorted)) THEN <<x>> \o sorted
    ELSE <<Head(sorted)>> \o Insert(Tail(sorted), x)

RECURSIVE Sorted(_)
Sorted(list) ==
    IF list = <<>> THEN <<>>
    ELSE Insert(Sorted(SubSeq(list, 1, Len(list) - 1)), list[Len(list)])

(***************************************************************************)
(* The documents of the model: every sequence of at most a bounded number  *)
(* of lines drawn from a vocabulary, joined with "\n" as in the text file. *)
(***************************************************************************)
MaxLines == 3
MaxEntryLines == 5
MaxSectionLines == 3
MaxVariantLines == 3

LinesUpTo(vocabulary, n) == UNION {[1..m -> vocabulary] : m \in 0..n}

\* An entry with its labelled lines, and lines the segmenter skips or rejects
Vocabulary ==
    {"Adiantum pedatum Northern maidenhair fern",
     "Habitat: Moist woods",
     "Exposure: Shade",
     "Acer rubrum Ab.",
     "  Exposure: Sun Ecosystem Services: Birds",
     "Form/Color: Red in fall",
     "Forbs are Herbaceous",
     ""}

\* A repeated name with habitats of 12 and 30 characters
EntryVocabulary ==
    {"Acer rubrum Red maple",
     "Habitat: Moist forest",
     "Habitat: Moist to wet woods and thicket"}

\* The section anchors around an entry
SectionVocabulary ==
    {"Page | 98",
     "Ferns",
     "Ferns add texture",
     "See Glossary",
     "Quercus alba + White oak Invasive"}

\* Two spellings of one variety, and the remaining labels
VariantVocabulary ==
    {"Carex stricta var. strictior Tussock sedge",
     "Carex stricta  var.\tstrictior Upright sedge:",
     "Habitat: Wet meadows  Coefficient of 5 (obligate)",
     "Ecosystem Services: Cover  Horticultural Value: High",
     "Other: Rare"}

Documents ==
    {Join(doc, "\n") : doc \in LinesUpTo(Vocabulary, MaxLines)
                               \cup LinesUpTo(EntryVocabulary, MaxEntryLines)
                               \cup LinesUpTo(SectionVocabulary, MaxSectionLines)
                               \cup LinesUpTo(VariantVocabulary, MaxVariantLines)}

(***************************************************************************)
(* The state machine.  pc is the position in parse_plants and main;        *)
(* anchors and used do not exist in the code: anchors[n] records the line  *)
(* index of the entry line of plants[n] and the indices of the lines that  *)
(* assigned its fields, used collects the latter during one lookahead;     *)
(* merge_in keeps the list main hands to its "Remove duplicates" loop.     *)
(***************************************************************************)
NoPlant == [scientific_name |-> ""]

Init ==
    /\ content \in Documents
    /\ pc = "locate"
    /\ start_idx = 0 /\ end_idx = 0
    /\ lines = <<>>
    /\ i = 0 /\ j = 0 /\ k = 0
    /\ plants = <<>>
    /\ seen = {}
    /\ plant_info = NoPlant
    /\ form_text = ""
    /\ anchors = <<>>
    /\ used = {}
    /\ merge_in = <<>>
    /\ NoLookup

\* Lines 16-34: the section, its lines, the empty result
Locate ==
    /\ pc = "locate"
    /\ start_idx' = StartIdx(content)
    /\ end_idx' = EndIdx(content, start_idx')
    /\ lines' = Split(Slice(content, start_idx', end_idx'), "\n")
    /\ i' = 0
    /\ plants' = <<>>
    /\ seen' = {}
    /\ pc' = "scan"
    /\ UNCHANGED <<fetch, content, j, k, plant_info, form_text, anchors, used, merge_in>>

NextLine ==
    /\ i' = i + 1
    /\ UNCHANGED <<fetch, content, pc, start_idx, end_idx, lines, j, k, plants, seen,
                   plant_info, form_text, anchors, used, merge_in>>

\* What the body of the outer loop does with a stripped line, given the
\* keys seen so far; "error" is the IndexError of genus[0] or species[0] on
\* an empty string
Matches == [ok : BOOLEAN, genus : STRING, species : STRING, common : STRING]

\* What the body of the outer loop does with a stripped line and the result
\* m of the match on it, given the keys seen so far; "error" is the
\* IndexError of genus[0] or species[0] on an empty string
OutcomeOf[line \in STRING, m \in Matches, keys \in SUBSET STRING] ==
    IF IsSkippedLine(line) THEN "skip"
    ELSE IF ~m.ok THEN "no match"
    ELSE IF Len(Common(m)) < MinCommonLen \/ Lower(Genus(m)) \in SkipTerms
         THEN "reject"
    ELSE IF Genus(m) = "" \/ Species(m) = "" THEN "error"
    ELSE IF Rejected(m) THEN "reject"
    ELSE IF Lower(Scientific(m)) \in keys THEN "seen"
    ELSE "accept"

Outcome(n) == OutcomeOf[LineAt(n), EntryMatch(LineAt(n)), seen]

\* Lines 82-96 for a match m that is accepted: the key added to seen and the
\* record
EntryOf[m \in Matches] == [key |-> Lower(Scientific(m)), info |-> NewPlant(m)]

\* Lines 39-41
ScanSkip ==
    /\ pc = "scan" /\ i < Len(lines)
    /\ Outcome(i) = "skip"
    /\ NextLine

\* Line 50, no match
ScanNoMatch ==
    /\ pc = "scan" /\ i < Len(lines)
    /\ Outcome(i) = "no match"
    /\ NextLine

\* Lines 62-80
ScanReject ==
    /\ pc = "scan" /\ i < Len(lines)
    /\ Outcome(i) \in {"reject", "error"}
    /\ IF Outcome(i) = "error"
       THEN /\ pc' = "error"
            /\ UNCHANGED <<fetch, content, start_idx, end_idx, lines, i, j, k, plants,
                           seen, plant_info, form_text, anchors, used, merge_in>>
       ELSE NextLine

\* Line 83, the key is in seen
ScanSeen ==
    /\ pc = "scan" /\ i < Len(lines)
    /\ Outcome(i) = "seen"
    /\ NextLine

\* Lines 84-99
ScanAccept ==
    /\ pc = "scan" /\ i < Len(lines)
    /\ Outcome(i) = "accept"
    /\ seen' = seen \cup {EntryOf[EntryMatch(LineAt(i))].key}
    /\ plant_info' = EntryOf[EntryMatch(LineAt(i))].info
    /\ j' = i + 1
    /\ used' = {}
    /\ pc' = "look"
    /\ UNCHANGED <<fetch, content, start_idx, end_idx, lines, i, k, plants, form_text,
                   anchors, merge_in>>

\* The same with the scan resuming after the line that ended the lookahead
AfterWindowLineSkipping(info, from) ==
    IF StopsLookahead(LineAt(j))
    THEN /\ plants' = Append(plants, info)
         /\ anchors' = Append(anchors, [line |-> i, used |-> from])
         /\ i' = j + 1
         /\ pc' = "scan"
         /\ UNCHANGED j
    ELSE /\ j' = j + 1
         /\ pc' = "look"
         /\ UNCHANGED <<plants, anchors, i>>

\* Lines 138-146 with the record as it stands after line j: break, append
\* the record and go on scanning at i + 1, or go to the next window line
AfterWindowLine(info, from) ==
    IF StopsLookahead(LineAt(j))
    THEN /\ plants' = Append(plants, info)
         /\ anchors' = Append(anchors, [line |-> i, used |-> from])
         /\ i' = i + 1
         /\ pc' = "scan"
         /\ UNCHANGED j
    ELSE /\ j' = j + 1
         /\ pc' = "look"
         /\ UNCHANGED <<plants, anchors, i>>

\* Lines 100-113 and 129-142: a window line
LookLine ==
    /\ pc = "look" /\ j < WindowEnd(i)
    /\ IF ~InRange(j)
       THEN /\ pc' = "error"
            /\ UNCHANGED <<i, j, k, plants, plant_info, form_text, anchors, used>>
       ELSE IF Branch(LineAt(j)) = "form_color"
       THEN /\ form_text' = FormText(LineAt(j))
            /\ k' = j + 1
            /\ pc' = "cont"
            /\ UNCHANGED <<i, j, plants, plant_info, anchors, used>>
       ELSE /\ plant_info' = Harvested(plant_info, LineAt(j))
            /\ used' = IF Branch(LineAt(j)) = "none" THEN used ELSE used \cup {j}
            /\ AfterWindowLine(plant_info', used')
            /\ UNCHANGED <<k, form_text>>
    /\ UNCHANGED <<fetch, content, start_idx, end_idx, lines, seen, merge_in>>

\* Lines 117-126: a continuation line is appended
ContAppend ==
    /\ pc = "cont" /\ k < ContEnd(j)
    /\ IF ~InRange(k)
       THEN pc' = "error" /\ UNCHANGED <<k, form_text, used>>
       ELSE /\ Continues(LineAt(k))
            /\ form_text' = form_text \o " " \o LineAt(k)
            /\ used' = used \cup {k}
            /\ k' = k + 1
            /\ pc' = "cont"
    /\ UNCHANGED <<fetch, content, start_idx, end_idx, lines, i, j, plants, seen,
                   plant_info, anchors, merge_in>>

\* Lines 117-127 and 138-142: the continuation ends
ContStop ==
    /\ pc = "cont"
    /\ k >= ContEnd(j) \/ (InRange(k) /\ ~Continues(LineAt(k)))
    /\ plant_info' = [plant_info EXCEPT !.form_color = form_text]
    /\ used' = used \cup {j}
    /\ AfterWindowLine(plant_info', used')
    /\ UNCHANGED <<fetch, content, start_idx, end_idx, lines, k, seen, form_text, merge_in>>

\* Lines 100 and 144-146: the window is exhausted
LookEnd ==
    /\ pc = "look" /\ j >= WindowEnd(i)
    /\ plants' = Append(plants, plant_info)
    /\ anchors' = Append(anchors, [line |-> i, used |-> used])
    /\ i' = i + 1
    /\ pc' = "scan"
    /\ UNCHANGED <<fetch, content, start_idx, end_idx, lines, j, k, seen, plant_info,
                   form_text, used, merge_in>>

\* Lines 35 and 148: return plants
ScanEnd ==
    /\ pc = "scan" /\ i >= Len(lines)
    /\ pc' = "clean"
    /\ UNCHANGED <<fetch, content, start_idx, end_idx, lines, i, j, k, plants, seen,
                   plant_info, form_text, anchors, used, merge_in>>

\* Lines 218-221
MainClean ==
    /\ pc = "clean"
    /\ IF \E n \in 1..Len(plants) : Cleaned(plants[n]).category = "IndexError"
       THEN pc' = "error" /\ UNCHANGED plants
       ELSE /\ plants' = [n \in 1..Len(plants) |-> Cleaned(plants[n])]
            /\ pc' = "dedup"
    /\ UNCHANGED <<fetch, content, start_idx, end_idx, lines, i, j, k, seen, plant_info,
                   form_text, anchors, used, merge_in>>

\* Lines 224-234
MainDedup ==
    /\ pc = "dedup"
    /\ merge_in' = plants
    /\ plants' = Unique(plants, 1, <<>>)
    /\ pc' = "sort"
    /\ UNCHANGED <<fetch, content, start_idx, end_idx, lines, i, j, k, seen, plant_info,
                   form_text, anchors, used>>

\* Line 235
MainSort ==
    /\ pc = "sort"
    /\ plants' = Sorted(plants)
    /\ pc' = "done"
    /\ UNCHANGED <<fetch, content, start_idx, end_idx, lines, i, j, k, seen, plant_info,
                   form_text, anchors, used, merge_in>>

Next ==
    \/ Locate
    \/ ScanNoMatch
    \/ ScanAccept
    \/ ScanSkip
    \/ ScanSeen
    \/ ScanReject
    \/ LookLine
    \/ ContAppend
    \/ ContStop
    \/ LookEnd
    \/ ScanEnd
    \/ MainClean
    \/ MainDedup
    \/ MainSort

Spec == Init /\ [][Next]_vars

\* The parser with the fairness of a running program: a step that can be
\* taken is taken
SpecLive == Spec /\ WF_vars(Next)

(***************************************************************************)
(* The "Remove duplicates" loop and the sort of main on arbitrary lists of *)
(* records.                                                                *)
(***************************************************************************)
MaxRecords == 3

MergeNames == {"Acer rubrum", "Acer Rubrum", "Carex stricta"}
MergeHabitats == {"", "Wet", "Dry", "Moist woods"}

MergeRecord(name, habitat) ==
    [scientific_name |-> name,
     common_name |-> "Common",
     habitat |-> habitat,
     form_color |-> "",
     ecosystem_services |-> "",
     horticultural_value |-> "",
     other_info |-> "",
     exposure |-> "",
     soil_moisture |-> "",
     category |-> categorize_plant(name)]

MergeRecords == {MergeRecord(name, habitat) : name \in MergeNames, habitat \in MergeHabitats}

InitMerge ==
    /\ content = ""
    /\ pc = "dedup"
    /\ start_idx = 0 /\ end_idx = 0
    /\ lines = <<>>
    /\ i = 0 /\ j = 0 /\ k = 0
    /\ plants \in LinesUpTo(MergeRecords, MaxRecords)
    /\ seen = {}
    /\ plant_info = NoPlant
    /\ form_text = ""
    /\ anchors = <<>>
    /\ used = {}
    /\ merge_in = <<>>
    /\ NoLookup

NextMerge == MainDedup \/ MainSort

SpecMerge == InitMerge /\ [][NextMerge]_vars

(***************************************************************************)
(* The clean-up loop of main (clean_name, categorize_plant) on one record  *)
(* of any listed genus, or of a genus in no list, followed by the merge    *)
(* and the sort.                                                           *)
(***************************************************************************)
GenusLists == <<fern_genera, graminoid_genera, shrub_genera, tree_genera, vine_genera>>
ListLabels == <<"Fern", "Graminoid", "Shrub", "Tree", "Vine">>

ListedGenera == UNION {{GenusLists[l][n] : n \in 1..Len(GenusLists[l])} : l \in 1..Len(GenusLists)}
UnlistedGenera == {"Solidago", "acer", "Acers", "Ace", "Zizia"}

\* What follows the genus in the name the parser hands over
NameTails == {"", " rubrum", "  Carex  stricta.", "\tvar. Vitis"}

RawRecord(name) ==
    [scientific_name |-> name,
     common_name |-> "Common",
     habitat |-> "",
     form_color |-> "",
     ecosystem_services |-> "",
     horticultural_value |-> "",
     other_info |-> "",
     exposure |-> "",
     soil_moisture |-> ""]

InitCategorize ==
    /\ content = ""
    /\ pc = "clean"
    /\ start_idx = 0 /\ end_idx = 0
    /\ lines = <<>>
    /\ i = 0 /\ j = 0 /\ k = 0
    /\ plants \in {<<RawRecord(genus \o tail)>> :
                       genus \in ListedGenera \cup UnlistedGenera, tail \in NameTails}
    /\ seen = {}
    /\ plant_info = NoPlant
    /\ form_text = ""
    /\ anchors = <<>>
    /\ used = {}
    /\ merge_in = <<>>
    /\ NoLookup

NextCategorize == MainClean \/ MainDedup \/ MainSort

SpecCategorize == InitCategorize /\ [][NextCategorize]_vars

(***************************************************************************)
(* The parser on sections where an entry is followed, more than StopAfter  *)
(* lines later, by an entry line of each form and then by a labelled line. *)
(***************************************************************************)
FirstEntry == "Acer rubrum Red maple"

StopFillers == {"", "Forbs are Herbaceous", "Acer rubrum Red maple", "Form/Color: Red in fall"}

\* The forms of an entry line: plain, var., ssp., and the obelisk after or
\* apart from the species
EntryForms ==
    {"Adiantum pedatum Northern maidenhair fern",
     "Carex stricta var. strictior Tussock sedge",
     "Carex stricta ssp. strictior Tussock sedge",
     "Quercus alba + White oak",
     "Quercus alba+ White oak"}

StopLabels == {"Habitat: Wet meadows", "Other: Rare"}

StopDocuments ==
    {Join(<<FirstEntry>> \o fill \o <<form, label>>, "\n") :
         fill \in [1..StopAfter -> StopFillers], form \in EntryForms, label \in StopLabels}

\* The state before parse_plants reads its file, for a set of documents
InitOn(documents) ==
    /\ content \in documents
    /\ pc = "locate"
    /\ start_idx = 0 /\ end_idx = 0
    /\ lines = <<>>
    /\ i = 0 /\ j = 0 /\ k = 0
    /\ plants = <<>>
    /\ seen = {}
    /\ plant_info = NoPlant
    /\ form_text = ""
    /\ anchors = <<>>
    /\ used = {}
    /\ merge_in = <<>>
    /\ NoLookup

InitStop == InitOn(StopDocuments)

SpecStop == InitStop /\ [][Next]_vars

(***************************************************************************)
(* The parser on sections as long as the lookahead window: an entry, blank *)
(* lines up to the end of its window, a Form/Color line at the last index  *)
(* of the window or next to it, and three more lines.                      *)
(***************************************************************************)
BlankLines(n) == [m \in 1..n |-> ""]

WindowTails == {"turning yellow", "Forbs are Herbaceous", "Acer rubrum Red maple", "Exposure: Shade"}

WindowDocuments ==
    {Join(<<FirstEntry>> \o BlankLines(LookaheadLines - back)
              \o <<"Form/Color: Red in fall">> \o tail, "\n") :
         back \in 1..StopAfter, tail \in [1..StopAfter -> WindowTails]}

InitWindow == InitOn(WindowDocuments)

SpecWindow == InitWindow /\ [][Next]_vars

(***************************************************************************)
(* The parser on sections where an entry and its Form/Color line are       *)
(* followed by up to ContinuationEnd lines of every kind the continuation  *)
(* loop tells apart.                                                       *)
(***************************************************************************)
ContVocabulary ==
    {"", "turning yellow", "Other: Rare", "Acer rubrum Red maple", "Forbs are Herbaceous"}

ContDocuments ==
    {Join(<<FirstEntry, "Form/Color: Red in fall">> \o tail, "\n") :
         tail \in LinesUpTo(ContVocabulary, ContinuationEnd)}

InitCont == InitOn(ContDocuments)

SpecCont == InitCont /\ [][Next]_vars

(***************************************************************************)
(* download_images.get_wikipedia_image: one call with a name, against a    *)
(* server that may answer each request in any way.  A frame is at its      *)
(* search request, at its page image request, or in the handler of a 429;  *)
(* the retry is a recursive call, so attempts is also the depth of the     *)
(* stack.  The interpreter's recursion limit is not in the source; the     *)
(* model stops calling at MaxAttempts.                                     *)
(***************************************************************************)
MAX_RETRIES == 3

RateLimited == 429

RateLimitWait == 60

MaxAttempts == 4

\* What a request can come back with: a status (NoAnswer when urlopen
\* fails without one: URLError, timeout) and, with 200, a body
NoAnswer == 0

OtherCodes == {404, 503}

Bodies == {"search hit", "search empty", "page image", "page plain", "not json"}

Responses ==
    [status : {200}, body : Bodies]
        \cup [status : {RateLimited} \cup OtherCodes \cup {NoAnswer}, body : {""}]

\* Lines 43-44 and 60-61: what urlopen and json.loads raise on a response
Raises(r) ==
    IF r.status = NoAnswer THEN "Exception"
    ELSE IF r.status # 200 THEN "HTTPError"
    ELSE IF r.body = "not json" THEN "Exception"
    ELSE "none"

\* Line 46: data.get('query', {}).get('search') is not empty
HasSearchResult(r) == r.body = "search hit"

\* Lines 63-65: some page of the answer has 'original'
HasOriginal(r) == r.body = "page image"

parser == <<content, pc, start_idx, end_idx, lines, i, j, k, plants, seen,
            plant_info, form_text, anchors, used, merge_in>>

InitLookup ==
    /\ content = ""
    /\ pc = "done"
    /\ start_idx = 0 /\ end_idx = 0
    /\ lines = <<>>
    /\ i = 0 /\ j = 0 /\ k = 0
    /\ plants = <<>>
    /\ seen = {}
    /\ plant_info = NoPlant
    /\ form_text = ""
    /\ anchors = <<>>
    /\ used = {}
    /\ merge_in = <<>>
    /\ frame = "call"
    /\ attempts = 0
    /\ responses = <<>>
    /\ result = "pending"
    /\ slept = 0

\* Lines 29-42: the function is entered, by main or by line 77
Call ==
    /\ frame = "call" /\ attempts < MaxAttempts
    /\ attempts' = attempts + 1
    /\ frame' = "search"
    /\ UNCHANGED <<parser, responses, result, slept>>

\* Line 47 or line 82: return None to the caller of the outermost frame
\* (line 77 returns what the inner call returns)
ReturnNone ==
    /\ result' = "None"
    /\ frame' = "returned"
    /\ UNCHANGED <<parser, attempts, slept>>

\* Lines 43-50: the search finds an article
SearchHit ==
    /\ frame = "search"
    /\ \E r \in Responses :
        /\ Raises(r) = "none" /\ HasSearchResult(r)
        /\ responses' = Append(responses, r)
    /\ frame' = "image"
    /\ UNCHANGED <<parser, attempts, result, slept>>

\* Lines 46-47: the search finds nothing
SearchEmpty ==
    /\ frame = "search"
    /\ \E r \in Responses :
        /\ Raises(r) = "none" /\ ~HasSearchResult(r)
        /\ responses' = Append(responses, r)
    /\ ReturnNone

\* Lines 60-71: the page has an image
ImageFound ==
    /\ frame = "image"
    /\ \E r \in Responses :
        /\ Raises(r) = "none" /\ HasOriginal(r)
        /\ responses' = Append(responses, r)
    /\ result' = "image"
    /\ frame' = "returned"
    /\ UNCHANGED <<parser, attempts, slept>>

\* Lines 63-65 and 82: no page has 'original'
ImageMissing ==
    /\ frame = "image"
    /\ \E r \in Responses :
        /\ Raises(r) = "none" /\ ~HasOriginal(r)
        /\ responses' = Append(responses, r)
    /\ ReturnNone

\* Lines 73-75: either request raises HTTPError with code 429
Limited ==
    /\ frame \in {"search", "image"}
    /\ \E r \in Responses :
        /\ Raises(r) = "HTTPError" /\ r.status = RateLimited
        /\ responses' = Append(responses, r)
    /\ frame' = "sleep"
    /\ UNCHANGED <<parser, attempts, result, slept>>

\* Lines 76-77: time.sleep(60), then the function calls itself
Retry ==
    /\ frame = "sleep"
    /\ slept' = slept + RateLimitWait
    /\ frame' = "call"
    /\ UNCHANGED <<parser, attempts, responses, result>>

\* Lines 73-74, 78 and 82: HTTPError with another code
HttpError ==
    /\ frame \in {"search", "image"}
    /\ \E r \in Responses :
        /\ Raises(r) = "HTTPError" /\ r.status # RateLimited
        /\ responses' = Append(responses, r)
    /\ ReturnNone

\* Lines 79-82: any other exception
OtherError ==
    /\ frame \in {"search", "image"}
    /\ \E r \in Responses :
        /\ Raises(r) = "Exception"
        /\ responses' = Append(responses, r)
    /\ ReturnNone

NextLookup ==
    \/ Call
    \/ SearchHit
    \/ SearchEmpty
    \/ ImageFound
    \/ ImageMissing
    \/ Limited
    \/ Retry
    \/ HttpError
    \/ OtherError

SpecLookup == InitLookup /\ [][NextLookup]_vars

(***************************************************************************)
(* Properties.                                                             *)
(***************************************************************************)

\* The line at index n is an entry line that passes the checks of the
\* segmenter (whether or not its name was seen before)
AcceptedEntry(n) ==
    /\ InRange(n)
    /\ ~IsSkippedLine(LineAt(n))
    /\ EntryMatch(LineAt(n)).ok
    /\ ~Rejected(EntryMatch(LineAt(n)))

EntryName(n) == Scientific(EntryMatch(LineAt(n)))

\* The line at index n is a Habitat line whose text has len characters
HabitatLineOf(n, len) ==
    /\ InRange(n)
    /\ StartsWith(LineAt(n), "Habitat:")
    /\ Len(HabitatText(LineAt(n))) = len

\* Exactly the entry lines a and b carry the name of a, the first followed
\* by a habitat of 12 characters and the second by one of 30, in either
\* document order
TwoEntries(a, b) ==
    /\ a # b
    /\ AcceptedEntry(a) /\ AcceptedEntry(b)
    /\ EntryName(a) = EntryName(b)
    /\ \A n \in 0..(Len(lines) - 1) :
          (AcceptedEntry(n) /\ Lower(EntryName(n)) = Lower(EntryName(a))) => n \in {a, b}
    /\ HabitatLineOf(a + 1, 12)
    /\ HabitatLineOf(b + 1, 30)

\* C1: when the section holds two accepted entry lines with one scientific
\* name, each followed by its own Habitat line, of 12 and of 30 characters
\* (in either order), the final output holds exactly one record of that name
\* and its habitat is the text of 30 characters.
C1_LongerHabitatWins ==
    pc = "done" =>
        \A a, b \in 0..(Len(lines) - 1) :
            TwoEntries(a, b) =>
                /\ Cardinality({n \in 1..Len(plants) :
                       plants[n].scientific_name = clean_name(EntryName(a))}) = 1
                /\ \A n \in 1..Len(plants) :
                       plants[n].scientific_name = clean_name(EntryName(a))
                           => plants[n].habitat = HabitatText(LineAt(b + 1))

\* C2: when an accepted candidate A at line i is followed by another
\* entry-start line B at a line index in i+1..i+3, no field of A is assigned
\* from B's line or from any line after it.
C2_NoTextFromNextEntry ==
    \A n \in 1..Len(anchors) :
        \A b \in (anchors[n].line + 1)..(anchors[n].line + StopAfter) :
            (InRange(b) /\ EntryMatch(LineAt(b)).ok)
                => \A u \in anchors[n].used : u < b

\* C3: no two records of the final output list (after the merge of main)
\* have scientific names that are equal when compared case-insensitively.
C3_UniqueNames ==
    pc \in {"sort", "done"} =>
        \A a, b \in 1..Len(plants) :
            a # b => Lower(plants[a].scientific_name) # Lower(plants[b].scientific_name)

\* The merge of main dropped a record of the parser
C3_Witness == pc = "done" /\ Len(plants) < Len(merge_in)

\* a <= b in code-point order: a is a prefix of b, or at the first position
\* where they differ a has the smaller code point
OrdinalLeq(a, b) ==
    \/ (Len(a) <= Len(b) /\ SubSeq(b, 1, Len(a)) = a)
    \/ \E n \in 1..Min(Len(a), Len(b)) :
          /\ SubSeq(a, 1, n - 1) = SubSeq(b, 1, n - 1)
          /\ Ord(Ch(a, n)) < Ord(Ch(b, n))

\* C4: the final output list is sorted ascending by scientific_name under
\* case-sensitive ordinal comparison: of two adjacent records, the earlier
\* name is less than or equal to the later one.
C4_SortedByName ==
    pc = "done" =>
        \A n \in 1..(Len(plants) - 1) :
            OrdinalLeq(plants[n].scientific_name, plants[n + 1].scientific_name)

\* The sort changed the order of at least two records
C4_Witness ==
    /\ pc = "done"
    /\ Len(plants) >= 2
    /\ plants # Unique(merge_in, 1, <<>>)

\* The records of list with the lowercase name key, as indices
Group(list, key) == {n \in 1..Len(list) : Lower(list[n].scientific_name) = key}

\* The record of its group that the merge is to keep: the first of those
\* with the longest habitat
Keeper(list, key) ==
    Least({n \in Group(list, key) :
              \A m \in Group(list, key) : Len(list[m].habitat) <= Len(list[n].habitat)})

\* C5: the merge step of main keeps exactly one record per lowercase
\* scientific_name: the record of the group whose habitat is longest, the
\* first of them in the list where several are longest; every other record
\* is discarded.
C5_MergeKeepsLongest ==
    pc = "sort" =>
        /\ Len(plants) = Cardinality({Lower(merge_in[n].scientific_name) : n \in 1..Len(merge_in)})
        /\ \A n \in 1..Len(merge_in) :
              LET key == Lower(merge_in[n].scientific_name)
              IN  /\ Cardinality(Group(plants, key)) = 1
                  /\ \A m \in Group(plants, key) : plants[m] = merge_in[Keeper(merge_in, key)]

\* A group with two different records of the same, longest habitat length
C5_Witness ==
    /\ pc = "sort"
    /\ \E a, b \in 1..Len(merge_in) :
          /\ a < b
          /\ Lower(merge_in[a].scientific_name) = Lower(merge_in[b].scientific_name)
          /\ merge_in[a] # merge_in[b]
          /\ Len(merge_in[a].habitat) = Len(merge_in[b].habitat)
          /\ Keeper(merge_in, Lower(merge_in[a].scientific_name)) = a

\* C6: every record of the final output (after clean_name) has a
\* common_name of at least 3 characters whose lowercase form is none of
\* 'common name', 'common names', 'valued characteristics'.
C6_CommonNameValid ==
    pc = "done" =>
        \A n \in 1..Len(plants) :
            /\ Len(plants[n].common_name) >= MinCommonLen
            /\ Lower(plants[n].common_name) \notin HeaderNames

\* The window line that the lookahead handled last, and the record as it
\* stood right after it: in the lookahead, the line before j; right after a
\* break, the line j and the record just appended.  -1 when there is none.
LastWindowLine ==
    IF pc = "look" /\ j > i + 1 THEN j - 1
    ELSE IF /\ pc = "scan" /\ anchors # <<>> /\ Last(anchors).line = i - 1
            /\ j < WindowEnd(i - 1) /\ j > i - 1
         THEN j
    ELSE -1

RecordAfterLine == IF pc = "look" THEN plant_info ELSE Last(plants)

\* C7: every line of the lookahead window of an accepted candidate that
\* contains 'Ecosystem Services:' sets ecosystem_services to the text after
\* 'Services:' on that line, whatever other labels the line contains.
C7_ServicesAlwaysSet ==
    (LastWindowLine # -1 /\ Contains(LineAt(LastWindowLine), "Ecosystem Services:"))
        => RecordAfterLine.ecosystem_services = ServicesText(LineAt(LastWindowLine))

ExampleDocument ==
    "Adiantum pedatum Northern maidenhair fern\nHabitat: Moist woods\nExposure: Shade"

\* C8: the document of the three lines 'Adiantum pedatum Northern maidenhair
\* fern', 'Habitat: Moist woods', 'Exposure: Shade' yields exactly one
\* record: scientific_name 'Adiantum pedatum', common_name 'Northern
\* maidenhair fern', habitat 'Moist woods', exposure 'Shade', category 'Fern'.
C8_ExampleRecord ==
    (pc = "done" /\ content = ExampleDocument) =>
        /\ Len(plants) = 1
        /\ plants[1].scientific_name = "Adiantum pedatum"
        /\ plants[1].common_name = "Northern maidenhair fern"
        /\ plants[1].habitat = "Moist woods"
        /\ plants[1].exposure = "Shade"
        /\ plants[1].category = "Fern"

C8_Witness == pc = "done" /\ content = ExampleDocument

\* sub occurs in text at 0-based offset p
Occurs(text, sub, p) ==
    p >= 0 /\ p + Len(sub) <= Len(text) /\ Slice(text, p, p + Len(sub)) = sub

OccursFrom(text, sub, from) == \E p \in from..Len(text) : Occurs(text, sub, p)

\* p is the offset of the first occurrence of sub at or after from
FirstFrom(text, sub, from, p) ==
    /\ p >= from
    /\ Occurs(text, sub, p)
    /\ \A q \in from..(p - 1) : ~Occurs(text, sub, q)

\* C9: the section scanned is content[start:end], where start is the offset
\* of the first 'Page | 98', else of the first 'Ferns\nFerns add texture',
\* else 0, and end is the offset of the first 'Glossary' at or after start,
\* else the length of the document; every record comes from an accepted
\* entry line of that section, and the locator never fails.
C9_SectionBounds ==
    pc # "locate" =>
        /\ IF OccursFrom(content, PageMarker, 0)
           THEN FirstFrom(content, PageMarker, 0, start_idx)
           ELSE IF OccursFrom(content, FernsHeader, 0)
           THEN FirstFrom(content, FernsHeader, 0, start_idx)
           ELSE start_idx = 0
        /\ IF OccursFrom(content, GlossaryToken, start_idx)
           THEN FirstFrom(content, GlossaryToken, start_idx, end_idx)
           ELSE end_idx = Len(content)
        /\ start_idx <= end_idx
        /\ lines = Split(Slice(content, start_idx, end_idx), "\n")
        /\ Len(plants) <= Len(anchors)
        /\ \A n \in 1..Len(anchors) : AcceptedEntry(anchors[n].line)
        /\ \A n \in 1..Len(plants) :
              \E m \in 1..Len(anchors) :
                  plants[n].scientific_name \in
                      {EntryName(anchors[m].line), clean_name(EntryName(anchors[m].line))}
        /\ pc # "error"

\* Both anchors cut the document, and the only entry line lies outside the
\* section: the run ends without a record
C9_Witness ==
    /\ pc = "done"
    /\ start_idx > 0
    /\ end_idx < Len(content)
    /\ plants = <<>>
    /\ \E line \in {Strip(Split(content, "\n")[n]) : n \in 1..Len(Split(content, "\n"))} :
          EntryMatch(line).ok /\ ~Rejected(EntryMatch(line))

\* One step of the loops moves its index forward by exactly one: i in the
\* outer loop (a skipped, unmatched, rejected or repeated line, or the end of
\* a lookahead), j in the lookahead, k in the Form/Color continuation
IndexAdvances ==
    /\ (pc = "scan" /\ pc' = "scan") => i' = i + 1
    /\ (pc \in {"look", "cont"} /\ pc' = "scan") => i' = i + 1
    /\ (pc = "scan" /\ pc' = "look") => (i' = i /\ j' = i + 1)
    /\ (pc \in {"look", "cont"} /\ pc' = "look") => (i' = i /\ j' = j + 1)
    /\ (pc = "look" /\ pc' = "cont") => (i' = i /\ j' = j /\ k' = j + 1)
    /\ (pc = "cont" /\ pc' = "cont") => (i' = i /\ j' = j /\ k' = k + 1)

\* C10: the parse loop terminates for every document: every iteration of the
\* outer loop and of both lookahead loops advances its index, the end of the
\* section is reached, no error state is reachable, and a list is returned.
C10_ParseTerminates ==
    /\ [][IndexAdvances]_vars
    /\ [](pc # "error")
    /\ [](pc = "clean" => i = Len(lines))
    /\ <>(pc = "clean")

\* parse_plants has returned a record after a lookahead whose Form/Color
\* continuation appended a line
C10_Witness ==
    /\ pc = "clean"
    /\ \E n \in 1..Len(plants) : plants[n].form_color = "Red in fall Exposure: Shade"

Labels == {"Fern", "Graminoid", "Shrub", "Tree", "Vine", "Forb"}

\* The first whitespace-delimited token of a name that has one
FirstToken(name) == Words(name)[1]

\* The lists (as indices of GenusLists) that hold the genus
ListsOf(genus) == {l \in 1..Len(GenusLists) : Has(GenusLists[l], genus)}

\* C11: the category of every record that main has categorised is one of the
\* six labels, it is Forb when the genus is in none of the five lists, and
\* it is the category of every name with the same first token.
C11_CategoryByGenus ==
    pc \in {"dedup", "sort", "done"} =>
        \A n \in 1..Len(plants) :
            LET genus == FirstToken(plants[n].scientific_name)
            IN  /\ plants[n].category \in Labels
                /\ ListsOf(genus) = {} => plants[n].category = "Forb"
                /\ \A tail \in NameTails \cup {" " \o g : g \in UnlistedGenera} :
                       categorize_plant(genus \o tail) = plants[n].category

\* Categorised records: one of an unlisted genus whose name goes on with a
\* listed genus, and one of a listed genus
C11_Witness ==
    /\ pc = "done"
    /\ \E n \in 1..Len(plants) :
          /\ plants[n].scientific_name = "Solidago Carex stricta"
          /\ plants[n].category = "Forb"

\* C12: the five genus lists are pairwise disjoint, so the genus of a
\* categorised record is in at most one list and, when it is in one, the
\* category is the label of that list wherever the list stands in the chain.
C12_ListsDisjoint ==
    /\ \A a, b \in 1..Len(GenusLists) :
          a # b => \A n \in 1..Len(GenusLists[a]) : ~Has(GenusLists[b], GenusLists[a][n])
    /\ pc \in {"dedup", "sort", "done"} =>
          \A n \in 1..Len(plants) :
              LET holders == ListsOf(FirstToken(plants[n].scientific_name))
              IN  /\ Cardinality(holders) <= 1
                  /\ \A l \in holders : plants[n].category = ListLabels[l]

\* A record of the last list of the chain
C12_Witness ==
    /\ pc = "done"
    /\ \E n \in 1..Len(plants) :
          /\ FirstToken(plants[n].scientific_name) = "Vitis"
          /\ plants[n].category = "Vine"

\* C13: in every record of the output the first token of scientific_name
\* starts with an uppercase letter, the second token starts with a lowercase
\* letter, and the first token in lowercase is none of ferns, forbs,
\* graminoids, shrubs, trees, vines.
C13_BinomialNames ==
    pc = "done" =>
        \A n \in 1..Len(plants) :
            LET tokens == Words(plants[n].scientific_name)
            IN  /\ Len(tokens) >= 2
                /\ Ch(tokens[1], 1) \in UpperSet
                /\ Ch(tokens[2], 1) \in LowerSet
                /\ Lower(tokens[1]) \notin {"ferns", "forbs", "graminoids", "shrubs", "trees", "vines"}

\* A run that ends with a record although the section holds a banner line
\* of the entry shape whose first word is reserved
C13_Witness ==
    /\ pc = "done"
    /\ plants # <<>>
    /\ \E n \in 0..(Len(lines) - 1) :
          /\ EntryMatch(LineAt(n)).ok
          /\ Lower(Genus(EntryMatch(LineAt(n)))) = "forbs"

\* C14: for an accepted candidate at line i, a line at an index b > i + 3
\* that matches the entry pattern of the segmenter in any of its forms ends
\* the lookahead: no line after b assigns or extends a field of the
\* candidate.
C14_StopsAtEveryEntryForm ==
    \A n \in 1..Len(anchors) :
        \A b \in (anchors[n].line + StopAfter + 1)..(Len(lines) - 1) :
            EntryMatch(LineAt(b)).ok => \A u \in anchors[n].used : u <= b

\* C15: every line that assigns or extends a field of an accepted candidate
\* at line i, the continuation lines appended to form_color included, has an
\* index in i+1..i+60.
C15_WithinSixtyLines ==
    \A n \in 1..Len(anchors) :
        \A u \in anchors[n].used :
            u \in (anchors[n].line + 1)..(anchors[n].line + LookaheadLines)

\* A line at which the continuation is to stop: the next-entry shape, or a
\* line starting with 'Other:', '---', 'Habitat:' or 'Page |'
ClaimedStop(line) == NextEntryShape(line) \/ \E x \in ContSentinels : StartsWith(line, x)

\* text followed by the lines from index n on, each after a single space,
\* up to the first of: three lines appended, the end of the section, a line
\* at which the continuation is to stop
RECURSIVE ClaimedForm(_, _, _)
ClaimedForm(text, n, count) ==
    IF count = ContinuationEnd - 1 \/ ~InRange(n) \/ ClaimedStop(LineAt(n)) THEN text
    ELSE ClaimedForm(text \o " " \o LineAt(n), n + 1, count + 1)

\* C16: right after the lookahead handled a window line that contains
\* 'Form/Color:', form_color is the text after the label followed by the
\* next lines, each after a single space, where only three appended lines,
\* the end of the section, a next-entry line or a line starting with
\* 'Other:', 'Habitat:', '---' or 'Page |' end the appending (a blank line
\* does not).
C16_ContinuationStops ==
    (LastWindowLine # -1 /\ Contains(LineAt(LastWindowLine), "Form/Color:"))
        => RecordAfterLine.form_color =
               ClaimedForm(FormText(LineAt(LastWindowLine)), LastWindowLine + 1, 0)

\* The scan position during and after a lookahead: i stays while the
\* lookahead and the continuation run, the scan resumes at i + 1, and the
\* outer loop tests the lines one after the other
ScanResumes ==
    /\ pc \in {"look", "cont"} /\ pc' \in {"look", "cont"} => i' = i
    /\ pc \in {"look", "cont"} /\ pc' = "scan" => i' = i + 1
    /\ pc = "scan" /\ pc' = "look" => i' = i
    /\ pc = "scan" /\ pc' = "scan" => i' = i + 1

\* The line at index n is an accepted entry line whose name no accepted
\* entry line before it carries
NewEntry(n) ==
    /\ AcceptedEntry(n)
    /\ \A m \in 0..(n - 1) : AcceptedEntry(m) => Lower(EntryName(m)) # Lower(EntryName(n))

\* C17: harvesting never moves the scan position: the scan resumes at line
\* i + 1 after a lookahead, so the outer loop tests every line of the section
\* once, in order, and every accepted entry line with a new name has its own
\* record when the parser returns, also when it lies inside the lookahead
\* window of an earlier candidate.
C17_ScanResumesAfterEntry ==
    /\ [][ScanResumes]_vars
    /\ [](pc = "clean" =>
            /\ i = Len(lines)
            /\ \A a, b \in 1..Len(anchors) : a < b => anchors[a].line < anchors[b].line
            /\ \A n \in 0..(Len(lines) - 1) :
                  NewEntry(n) => \E a \in 1..Len(anchors) :
                                     /\ anchors[a].line = n
                                     /\ plants[a].scientific_name = EntryName(n))

\* The parser returned two records, the entry line of the second inside the
\* part of the window that the first took a field from
C17_Witness ==
    /\ pc = "clean"
    /\ \E a, b \in 1..Len(anchors) :
          /\ a < b
          /\ \E u \in anchors[a].used : anchors[b].line < u

\* C18: one call of get_wikipedia_image makes at most two lookup attempts,
\* whatever the server answers: the lookup that fails with 429 is retried
\* once, and a second 429 is not retried
C18_AtMostTwoAttempts ==
    /\ attempts <= 2
    /\ frame = "sleep" => attempts < 2

====
